---------------------------- MODULE Spec2Model ----------------------------
(***************************************************************************)
(* A model of the Aliyun DNS API client of src/src/lib.rs: the request     *)
(* signer (percent_encode, sign_request), the request assembly of          *)
(* send_request, the response classification of handle_response and the    *)
(* five public operations, run by concurrent tasks on one client.          *)
(*                                                                         *)
(* Strings are sequences of bytes (0..255), as the code handles them: a    *)
(* &str is its UTF-8 bytes.  The text of every byte string is given in a   *)
(* comment next to it.                                                     *)
(***************************************************************************)
EXTENDS Integers, Sequences, FiniteSets, TLC

VARIABLES
    access_key_id,      \* AliyunDns.access_key_id
    access_key_secret,  \* AliyunDns.access_key_secret
    tasks,              \* per task: the frame of the call it is running
    clock,              \* the system clock (Utc::now), in seconds since the epoch
    input,              \* harness of the pure functions: the argument drawn
    output              \* harness of the pure functions: <<>> or <<result>>

vars == <<access_key_id, access_key_secret, tasks, clock, input, output>>

---------------------------------------------------------------------------
(* Bounds of the model. *)

\* Longest byte string given to percent_encode alone.
MaxLen == 3
\* Most parameters of a mapping given to the signer alone.
MaxParams == 2
\* Seconds the clock advances in one run.
MaxTicks == 1
\* The hash map yields its keys in one of MaxRot + 1 rotations of an order.
MaxRot == 1
\* The clock's reading at the start of a run: 2025-12-31T23:59:59Z.
StartTime == 1767225599

---------------------------------------------------------------------------
(* Byte strings of the program text. *)

K_AccessKeyId      == <<65, 99, 99, 101, 115, 115, 75, 101, 121, 73, 100>>                        \* "AccessKeyId"
K_Action           == <<65, 99, 116, 105, 111, 110>>                                              \* "Action"
K_Format           == <<70, 111, 114, 109, 97, 116>>                                              \* "Format"
K_Version          == <<86, 101, 114, 115, 105, 111, 110>>                                        \* "Version"
K_SignatureMethod  == <<83, 105, 103, 110, 97, 116, 117, 114, 101, 77, 101, 116, 104, 111, 100>>  \* "SignatureMethod"
K_SignatureVersion == <<83, 105, 103, 110, 97, 116, 117, 114, 101, 86, 101, 114, 115, 105, 111, 110>> \* "SignatureVersion"
K_SignatureNonce   == <<83, 105, 103, 110, 97, 116, 117, 114, 101, 78, 111, 110, 99, 101>>        \* "SignatureNonce"
K_Timestamp        == <<84, 105, 109, 101, 115, 116, 97, 109, 112>>                               \* "Timestamp"
K_Signature        == <<83, 105, 103, 110, 97, 116, 117, 114, 101>>                               \* "Signature"
K_DomainName       == <<68, 111, 109, 97, 105, 110, 78, 97, 109, 101>>                            \* "DomainName"
K_RR               == <<82, 82>>                                                                  \* "RR"
K_Type             == <<84, 121, 112, 101>>                                                       \* "Type"
K_Value            == <<86, 97, 108, 117, 101>>                                                   \* "Value"
K_RecordId         == <<82, 101, 99, 111, 114, 100, 73, 100>>                                     \* "RecordId"

V_JSON             == <<74, 83, 79, 78>>                                                          \* "JSON"
V_Version          == <<50, 48, 49, 53, 45, 48, 49, 45, 48, 57>>                                  \* "2015-01-09"
V_HmacSha1         == <<72, 77, 65, 67, 45, 83, 72, 65, 49>>                                      \* "HMAC-SHA1"
V_SigVersion       == <<49, 46, 48>>                                                              \* "1.0"
A_AddDomainRecord  == <<65, 100, 100, 68, 111, 109, 97, 105, 110, 82, 101, 99, 111, 114, 100>>    \* "AddDomainRecord"
A_DeleteSubDomainRecords == <<68, 101, 108, 101, 116, 101, 83, 117, 98, 68, 111, 109, 97, 105, 110, 82, 101, 99, 111, 114, 100, 115>> \* "DeleteSubDomainRecords"
A_DeleteDomainRecord == <<68, 101, 108, 101, 116, 101, 68, 111, 109, 97, 105, 110, 82, 101, 99, 111, 114, 100>> \* "DeleteDomainRecord"
A_UpdateDomainRecord == <<85, 112, 100, 97, 116, 101, 68, 111, 109, 97, 105, 110, 82, 101, 99, 111, 114, 100>> \* "UpdateDomainRecord"
A_DescribeDomainRecords == <<68, 101, 115, 99, 114, 105, 98, 101, 68, 111, 109, 97, 105, 110, 82, 101, 99, 111, 114, 100, 115>> \* "DescribeDomainRecords"
S_GET              == <<71, 69, 84>>                                                              \* "GET"
S_Slash            == <<47>>                                                                      \* "/"
S_Endpoint         == <<104, 116, 116, 112, 115, 58, 47, 47, 97, 108, 105, 100, 110, 115, 46, 97, 108, 105, 121, 117, 110, 99, 115, 46, 99, 111, 109, 47>> \* "https://alidns.aliyuncs.com/"
S_Amp              == <<38>>                                                                      \* "&"
S_Eq               == <<61>>                                                                      \* "="
S_Question         == <<63>>                                                                      \* "?"
S_Pct2A            == <<37, 50, 65>>                                                              \* "%2A"
S_Plus             == <<43>>                                                                      \* "+"

---------------------------------------------------------------------------
(* Sequence helpers. *)

RECURSIVE Join(_, _)
\* Vec<String>::join(sep): the strings of ss with sep between neighbours.
Join(ss, sep) ==
    IF ss = <<>> THEN <<>>
    ELSE IF Len(ss) = 1 THEN ss[1]
    ELSE ss[1] \o sep \o Join(Tail(ss), sep)

RECURSIVE ConcatRange(_, _, _)
\* The strings ss[lo..hi] one after the other (by halves: the depth stays small).
ConcatRange(ss, lo, hi) ==
    IF lo > hi THEN <<>>
    ELSE IF lo = hi THEN ss[lo]
    ELSE LET mid == (lo + hi) \div 2
         IN  ConcatRange(ss, lo, mid) \o ConcatRange(ss, mid + 1, hi)

\* collect::<String>(): the strings of ss one after the other.
Concat(ss) == ConcatRange(ss, 1, Len(ss))

\* Ord for str: lexicographic on the bytes, a proper prefix first.
StrLess(a, b) ==
    LET n    == IF Len(a) < Len(b) THEN Len(a) ELSE Len(b)
        diff == {i \in 1..n : a[i] # b[i]}
    IN  IF diff = {} THEN Len(a) < Len(b)
        ELSE LET i == CHOOSE x \in diff : \A y \in diff : x <= y
             IN  a[i] < b[i]

RECURSIVE InsertSorted(_, _)
InsertSorted(k, s) ==
    IF s = <<>> THEN <<k>>
    ELSE IF StrLess(s[1], k) THEN <<s[1]>> \o InsertSorted(k, Tail(s))
    ELSE <<k>> \o s

RECURSIVE SortKeys(_)
\* keys.sort(): the keys in ascending order.
SortKeys(s) == IF s = <<>> THEN <<>> ELSE InsertSorted(s[1], SortKeys(Tail(s)))

---------------------------------------------------------------------------
(* percent_encode and the url crate's form_urlencoded::byte_serialize. *)

\* An uppercase hexadecimal digit, as a byte.
HexDigit(n) == IF n < 10 THEN 48 + n ELSE 55 + n

\* url's percent_encode_byte: "%XX", uppercase.
percent_encode_byte(b) == <<37, HexDigit(b \div 16), HexDigit(b % 16)>>

\* url's byte_serialized_unchanged: '*', '-', '.', '_', 0-9, A-Z, a-z.
byte_serialized_unchanged(b) ==
    \/ b \in {42, 45, 46, 95}
    \/ b \in 48..57
    \/ b \in 65..90
    \/ b \in 97..122

\* serialize_byte with '+' among the bytes left unchanged.
serialize_byte_plus_unchanged(b) ==
    IF byte_serialized_unchanged(b) \/ b = 43 THEN <<b>>
    ELSE IF b = 32 THEN S_Plus
    ELSE percent_encode_byte(b)

\* One byte through url::form_urlencoded::byte_serialize.
serialize_byte(b) ==
    IF byte_serialized_unchanged(b) THEN <<b>>
    ELSE IF b = 32 THEN S_Plus
    ELSE percent_encode_byte(b)

\* url::form_urlencoded::byte_serialize(bytes).collect::<String>().
byte_serialize(bytes) == Concat([i \in 1..Len(bytes) |-> serialize_byte(bytes[i])])

\* percent_encode of lib.rs, one byte of the loop.
percent_encode_step(b) == IF b = 42 THEN S_Pct2A ELSE byte_serialize(<<b>>)

\* percent_encode(input).
percent_encode(s) == Concat([i \in 1..Len(s) |-> percent_encode_step(s[i])])

---------------------------------------------------------------------------
(* Parameter maps: HashMap<&str, &str>, a function from keys to values. *)

EmptyMap == [k \in {} |-> <<>>]

\* HashMap::insert: the value of an existing key is replaced.
Insert(m, k, v) == [x \in DOMAIN m \cup {k} |-> IF x = k THEN v ELSE m[x]]

\* Whether order lists every key of the map exactly once.
IsOrderOf(order, m) ==
    /\ Len(order) = Cardinality(DOMAIN m)
    /\ {order[i] : i \in 1..Len(order)} = DOMAIN m

RECURSIVE SetToSeq(_)
SetToSeq(S) ==
    IF S = {} THEN <<>>
    ELSE LET x == CHOOSE y \in S : TRUE IN <<x>> \o SetToSeq(S \ {x})

\* s turned left by r places.
Rotate(s, r) ==
    IF s = <<>> THEN s
    ELSE [i \in 1..Len(s) |-> s[((i - 1 + r) % Len(s)) + 1]]

\* Every order in which a hash map of at most MaxParams keys can yield them.
AllOrders(m) ==
    {o \in [1..Cardinality(DOMAIN m) -> DOMAIN m] : IsOrderOf(o, m)}

\* The orders in which the model lets a larger hash map yield its keys: the
\* rotations by 0..rot of one order of the keys (the iteration order of a
\* HashMap is unspecified).
IterationOrders(m, rot) ==
    LET base == SortKeys(SetToSeq(DOMAIN m))
    IN  {Rotate(base, Len(base) - (r % (Len(base) + 1))) : r \in 0..rot}

---------------------------------------------------------------------------
(* sign_request. *)

\* One "key=value" pair of the canonical query string.
canonical_pair(params, key) ==
    percent_encode(key) \o S_Eq \o percent_encode(params[key])

\* signing_keys without keys.sort(): the keys as the map yields them.
signing_keys_unsorted(order) == order

\* The key list sign_request signs in: params.keys() collected, then sorted.
signing_keys(order) == SortKeys(order)

\* canonical_query_string of sign_request; order is the order in which
\* params.keys() yields the keys.
canonical_query_string(params, order) ==
    LET keys == signing_keys(order)
    IN  Join([i \in 1..Len(keys) |-> canonical_pair(params, keys[i])], S_Amp)

\* string_to_sign of sign_request.
string_to_sign(canonical) ==
    S_GET \o S_Amp \o percent_encode(S_Slash) \o S_Amp \o percent_encode(canonical)

RECURSIVE WeightedSum(_, _, _)
\* The sum of the bytes s[lo..hi], each weighted by its place, modulo 2^16.
WeightedSum(s, lo, hi) ==
    IF lo > hi THEN 0
    ELSE IF lo = hi THEN (s[lo] * ((lo % 251) + 1)) % 65536
    ELSE LET mid == (lo + hi) \div 2
         IN  (WeightedSum(s, lo, mid) + WeightedSum(s, mid + 1, hi)) % 65536

\* Hmac::<Sha1> over msg with key.  SHA-1 is not computed: the 20-byte digest
\* is abstracted to a two-byte keyed checksum, a function of key and message.
hmac_sha1(key, msg) ==
    LET h == WeightedSum(key \o <<0>> \o msg, 1, Len(key) + 1 + Len(msg))
    IN  <<h \div 256, h % 256>>

\* A character of the standard base64 alphabet.
Base64Char(n) ==
    IF n < 26 THEN 65 + n
    ELSE IF n < 52 THEN 97 + (n - 26)
    ELSE IF n < 62 THEN 48 + (n - 52)
    ELSE IF n = 62 THEN 43
    ELSE 47

RECURSIVE base64_encode(_)
\* base64::engine::general_purpose::STANDARD.encode: padded with '='.
base64_encode(bytes) ==
    IF bytes = <<>> THEN <<>>
    ELSE IF Len(bytes) = 1 THEN
        <<Base64Char(bytes[1] \div 4), Base64Char((bytes[1] % 4) * 16), 61, 61>>
    ELSE IF Len(bytes) = 2 THEN
        <<Base64Char(bytes[1] \div 4),
          Base64Char((bytes[1] % 4) * 16 + bytes[2] \div 16),
          Base64Char((bytes[2] % 16) * 4), 61>>
    ELSE
        <<Base64Char(bytes[1] \div 4),
          Base64Char((bytes[1] % 4) * 16 + bytes[2] \div 16),
          Base64Char((bytes[2] % 16) * 4 + bytes[3] \div 64),
          Base64Char(bytes[3] % 64)>>
        \o base64_encode(SubSeq(bytes, 4, Len(bytes)))

\* sign_request(&self, params): secret is self.access_key_secret.
sign_request(secret, params, order) ==
    LET canonical     == canonical_query_string(params, order)
        signature_key == secret \o S_Amp
    IN  base64_encode(hmac_sha1(signature_key, string_to_sign(canonical)))

---------------------------------------------------------------------------
(* The nonce and the timestamp of send_request. *)

RECURSIVE Decimal(_)
\* format!("{}", n) of an unsigned integer.
Decimal(n) == IF n < 10 THEN <<48 + n>> ELSE Decimal(n \div 10) \o <<48 + (n % 10)>>

Dec2(n) == <<48 + (n \div 10), 48 + (n % 10)>>

Dec4(n) == Dec2(n \div 100) \o Dec2(n % 100)

\* The civil date of a day number (days since 1970-01-01), as chrono gives it.
CivilFromDays(days) ==
    LET z   == days + 719468
        era == z \div 146097
        doe == z - era * 146097
        yoe == (doe - (doe \div 1460) + (doe \div 36524) - (doe \div 146096)) \div 365
        doy == doe - (365 * yoe + (yoe \div 4) - (yoe \div 100))
        mp  == (5 * doy + 2) \div 153
        d   == doy - ((153 * mp + 2) \div 5) + 1
        m   == IF mp < 10 THEN mp + 3 ELSE mp - 9
        y   == yoe + era * 400 + (IF m <= 2 THEN 1 ELSE 0)
    IN  [year |-> y, month |-> m, day |-> d]

\* Utc::now().format("%Y-%m-%dT%H:%M:%SZ").to_string() at clock reading t.
FormatTime(t) ==
    LET date == CivilFromDays(t \div 86400)
        secs == t % 86400
    IN  Dec4(date.year) \o <<45>> \o Dec2(date.month) \o <<45>> \o Dec2(date.day)
        \o <<84>> \o Dec2(secs \div 3600) \o <<58>> \o Dec2((secs % 3600) \div 60)
        \o <<58>> \o Dec2(secs % 60) \o <<90>>

\* The values rand::random::<u64>() draws in the model.
Nonces == {7, 4096}

---------------------------------------------------------------------------
(* The request URL of send_request. *)

\* One "name=value" pair as url's form_urlencoded::Serializer writes it.
url_pair(name, value) == byte_serialize(name) \o S_Eq \o byte_serialize(value)

\* url.query_pairs_mut().extend_pairs(params.into_iter()): the query after
\* the pairs of params, yielded in order, are appended to an empty query.
extend_pairs(params, order) ==
    Join([i \in 1..Len(order) |-> url_pair(order[i], params[order[i]])], S_Amp)

\* url.query_pairs_mut().append_pair(name, value) on the query so far: a
\* separator is written only after an earlier pair.
append_pair(query, name, value) ==
    (IF query = <<>> THEN <<>> ELSE query \o S_Amp) \o url_pair(name, value)

\* request_url with the signature inserted into the map before the pairs
\* are written, instead of appended after them.
request_url_signature_in_map(params, order, signature) ==
    S_Endpoint \o S_Question
    \o extend_pairs(Insert(params, K_Signature, signature), <<K_Signature>> \o order)

\* The URL send_request hands to the transport.
request_url(params, order, signature) ==
    S_Endpoint \o S_Question
    \o append_pair(extend_pairs(params, order), K_Signature, signature)

---------------------------------------------------------------------------
(* Response bodies and their decoding (serde, #[serde(untagged)]).          *)
(* A body is text that is not JSON, or a JSON object: a function from field *)
(* names to values [kind, val], kind one of "string", "number", "null",     *)
(* "records" (an object holding an array of well-formed records).           *)

NoFields == [f \in {} |-> [kind |-> "null", val |-> ""]]

MalformedBody == [valid |-> FALSE, fields |-> NoFields]

JsonObject(fields) == [valid |-> TRUE, fields |-> fields]

\* The fields each success payload requires, with the kind each must have:
\* RecordResponse, DeleteSubDomainRecordsResponse, DomainRecordsResponse.
Schema(T) ==
    CASE T = "RecordResponse" ->
            [f \in {"RequestId", "RecordId"} |-> "string"]
      [] T = "DeleteSubDomainRecordsResponse" ->
            [f \in {"RR", "TotalCount", "RequestId"} |-> "string"]
      [] T = "DomainRecordsResponse" ->
            [f \in {"TotalCount", "RequestId", "PageSize", "DomainRecords"} |->
                IF f = "RequestId" THEN "string"
                ELSE IF f = "DomainRecords" THEN "records"
                ELSE "number"]

ResponseTypes == {"RecordResponse", "DeleteSubDomainRecordsResponse", "DomainRecordsResponse"}

\* ApiResponse::Success(T): <<payload>> when every field of T is in the body
\* with its kind (fields T does not name are ignored), <<>> otherwise.
decode_success(T, body) ==
    IF /\ body.valid
       /\ \A f \in DOMAIN Schema(T) :
            /\ f \in DOMAIN body.fields
            /\ body.fields[f].kind = Schema(T)[f]
    THEN <<[f \in DOMAIN Schema(T) |-> body.fields[f].val]>>
    ELSE <<>>

\* An Option<String> field with #[serde(default)]: absent or null is None.
optional_string_ok(body, f) ==
    f \in DOMAIN body.fields => body.fields[f].kind \in {"string", "null"}

\* Option::unwrap_or_default of such a field.
unwrap_or_default(body, f) ==
    IF f \in DOMAIN body.fields /\ body.fields[f].kind = "string"
    THEN body.fields[f].val ELSE ""

\* ApiResponse::Error { request_id, error_code, error_message }.
decode_error(body) ==
    IF /\ body.valid
       /\ "RequestId" \in DOMAIN body.fields
       /\ body.fields["RequestId"].kind = "string"
       /\ optional_string_ok(body, "Code")
       /\ optional_string_ok(body, "Message")
    THEN <<[f \in {"RequestId", "Code", "Message"} |->
              IF f = "RequestId" THEN body.fields[f].val
              ELSE unwrap_or_default(body, f)]>>
    ELSE <<>>

NoData == [f \in {} |-> ""]

Ok(payload)        == [kind |-> "ok", data |-> payload, raw |-> <<>>]
ApiError(e)        == [kind |-> "api_error", data |-> e, raw |-> <<>>]
DecodeError(body)  == [kind |-> "decode_error", data |-> NoData, raw |-> <<body>>]
TransportError     == [kind |-> "transport_error", data |-> NoData, raw |-> <<>>]

\* decode_api_response with the variants tried in the other order.
decode_api_response_error_first(T, body) ==
    IF decode_error(body) # <<>> THEN ApiError(decode_error(body)[1])
    ELSE IF decode_success(T, body) # <<>> THEN Ok(decode_success(T, body)[1])
    ELSE DecodeError(body)

\* serde_json::from_str::<ApiResponse<T>>: the variants are tried in the
\* order they are declared, Success first.
decode_api_response(T, body) ==
    IF decode_success(T, body) # <<>> THEN Ok(decode_success(T, body)[1])
    ELSE IF decode_error(body) # <<>> THEN ApiError(decode_error(body)[1])
    ELSE DecodeError(body)

\* handle_response with the status check that lines 499-502 hold commented
\* out: a status that is not a success fails the call.
handle_response_checks_status(T, response) ==
    IF response.status \notin 200..299
    THEN [kind |-> "status_error", data |-> NoData, raw |-> <<>>]
    ELSE IF response.body = <<>> THEN TransportError
    ELSE decode_api_response(T, response.body[1])

\* handle_response::<T>(response): response is [status, body], body <<text>>
\* or <<>> when reading the body fails.  The status is not looked at.
handle_response(T, response) ==
    IF response.body = <<>> THEN TransportError
    ELSE decode_api_response(T, response.body[1])

---------------------------------------------------------------------------
(* The client and its tasks. *)

Tasks == {"t1", "t2"}

\* The credentials AliyunDns::new is given: "LTAI", "s3cret".
Credentials == {[id |-> <<76, 84, 65, 73>>, secret |-> <<115, 51, 99, 114, 101, 116>>]}

\* The strings the callers pass.
DomainNames  == {<<101, 120, 97, 109, 112, 108, 101, 46, 99, 111, 109>>}   \* "example.com"
SubDomains   == {<<119, 119, 119>>, <<97, 32, 98, 42, 126>>}               \* "www", "a b*~"
RecordTypes  == {<<65>>}                                                   \* "A"
RecordValues == {<<195, 169, 43, 37, 38, 61>>}                             \* "é+%&="
RecordIds    == {<<49, 50, 51, 52>>}                                       \* "1234"

\* The frame of a task that runs no call.  signed, order, requests and
\* decodes record what the call did: the map sign_request was given, the
\* order the map yielded when the URL was built, the requests handed to the
\* transport and the bodies given to the decoder.
IdleFrame ==
    [pc |-> "idle", op |-> "", T |-> "", action |-> <<>>, args |-> EmptyMap,
     params |-> EmptyMap, nonce |-> <<>>, now |-> <<>>, signature |-> <<>>,
     signed |-> EmptyMap, order |-> <<>>, url |-> <<>>, request |-> <<>>,
     requests |-> 0, response |-> <<>>, result |-> <<>>, decodes |-> 0]

\* AliyunDns::new(access_key_id, access_key_secret).
new(id, secret) ==
    /\ access_key_id = id
    /\ access_key_secret = secret

Init ==
    /\ \E c \in Credentials : new(c.id, c.secret)
    /\ tasks = [t \in Tasks |-> IdleFrame]
    /\ clock = StartTime
    /\ input = <<>>
    /\ output = <<>>

\* A public operation up to its call of send_request(action, params).
begin_call(t, op, T, action, params) ==
    /\ tasks[t].pc = "idle"
    /\ tasks' = [tasks EXCEPT ![t] =
                    [IdleFrame EXCEPT !.pc = "send_request", !.op = op, !.T = T,
                                      !.action = action, !.args = params,
                                      !.params = params]]
    /\ UNCHANGED <<access_key_id, access_key_secret, clock, input, output>>

add_domain_record(t, domain_name, sub_domain, record_type, record_value) ==
    begin_call(t, "add_domain_record", "RecordResponse", A_AddDomainRecord,
        Insert(Insert(Insert(Insert(EmptyMap, K_DomainName, domain_name),
            K_RR, sub_domain), K_Type, record_type), K_Value, record_value))

delete_subdomain_records(t, domain_name, rr) ==
    begin_call(t, "delete_subdomain_records", "DeleteSubDomainRecordsResponse",
        A_DeleteSubDomainRecords,
        Insert(Insert(EmptyMap, K_DomainName, domain_name), K_RR, rr))

delete_domain_record(t, record_id) ==
    begin_call(t, "delete_domain_record", "RecordResponse", A_DeleteDomainRecord,
        Insert(EmptyMap, K_RecordId, record_id))

\* update_domain_record with the record id put under "DomainName".
update_domain_record_keyed_by_domain(t, record_id, sub_domain, record_type, value) ==
    begin_call(t, "update_domain_record", "RecordResponse", A_UpdateDomainRecord,
        Insert(Insert(Insert(Insert(EmptyMap, K_DomainName, record_id),
            K_RR, sub_domain), K_Type, record_type), K_Value, value))

update_domain_record(t, record_id, sub_domain, record_type, value) ==
    begin_call(t, "update_domain_record", "RecordResponse", A_UpdateDomainRecord,
        Insert(Insert(Insert(Insert(EmptyMap, K_RecordId, record_id),
            K_RR, sub_domain), K_Type, record_type), K_Value, value))

query_domain_records(t, domain_name) ==
    begin_call(t, "query_domain_records", "DomainRecordsResponse",
        A_DescribeDomainRecords, Insert(EmptyMap, K_DomainName, domain_name))

\* The keys send_request inserts.
CommonKeys ==
    {K_AccessKeyId, K_Action, K_Format, K_Version, K_SignatureMethod,
     K_SignatureVersion, K_SignatureNonce, K_Timestamp}

\* merge_common with the nonce left out.
merge_common_no_nonce(params, key_id, action, nonce, now) ==
    Insert(Insert(Insert(Insert(Insert(Insert(Insert(params,
        K_AccessKeyId, key_id),
        K_Action, action),
        K_Format, V_JSON),
        K_Version, V_Version),
        K_SignatureMethod, V_HmacSha1),
        K_SignatureVersion, V_SigVersion),
        K_Timestamp, now)

\* merge_common without the insert of "Format".
merge_common_no_format(params, key_id, action, nonce, now) ==
    Insert(Insert(Insert(Insert(Insert(Insert(Insert(params,
        K_AccessKeyId, key_id),
        K_Action, action),
        K_Version, V_Version),
        K_SignatureMethod, V_HmacSha1),
        K_SignatureVersion, V_SigVersion),
        K_SignatureNonce, nonce),
        K_Timestamp, now)

\* The eight inserts of send_request, in their order.
merge_common(params, key_id, action, nonce, now) ==
    Insert(Insert(Insert(Insert(Insert(Insert(Insert(Insert(params,
        K_AccessKeyId, key_id),
        K_Action, action),
        K_Format, V_JSON),
        K_Version, V_Version),
        K_SignatureMethod, V_HmacSha1),
        K_SignatureVersion, V_SigVersion),
        K_SignatureNonce, nonce),
        K_Timestamp, now)

\* send_request, lines 422-433: the nonce is drawn, the clock is read and the
\* common parameters are inserted into the call's own map.
send_request_merge(t, n) ==
    /\ tasks[t].pc = "send_request"
    /\ LET nonce == Decimal(n)
           now   == FormatTime(clock)
       IN  tasks' = [tasks EXCEPT ![t].pc = "sign", ![t].nonce = nonce, ![t].now = now,
                        ![t].params = merge_common(tasks[t].params, access_key_id,
                                                   tasks[t].action, nonce, now)]
    /\ UNCHANGED <<access_key_id, access_key_secret, clock, input, output>>

\* send_request, line 435: let signature = self.sign_request(&params); order
\* is the order in which params.keys() yields the keys.
send_request_sign(t, order) ==
    /\ tasks[t].pc = "sign"
    /\ tasks' = [tasks EXCEPT ![t].pc = "url",
                    ![t].signature = sign_request(access_key_secret, tasks[t].params, order),
                    ![t].signed = tasks[t].params]
    /\ UNCHANGED <<access_key_id, access_key_secret, clock, input, output>>

\* send_request_url with the parameter map kept in a field of the client that
\* every call writes: the URL is built from the map of whichever call merged
\* last and has not built its URL yet.
send_request_url_shared(t, order) ==
    /\ tasks[t].pc = "url"
    /\ LET others == {u \in Tasks \ {t} : tasks[u].pc \in {"sign", "url"}}
           owner  == IF others = {} THEN t ELSE CHOOSE u \in others : TRUE
           shared == tasks[owner].params
           yields == IF IsOrderOf(order, shared) THEN order
                     ELSE SortKeys(SetToSeq(DOMAIN shared))
       IN  tasks' = [tasks EXCEPT ![t].pc = "send", ![t].order = order,
                        ![t].url = request_url(shared, yields, tasks[t].signature)]
    /\ UNCHANGED <<access_key_id, access_key_secret, clock, input, output>>

\* send_request, lines 436-438: the URL is built from the map, which yields
\* its pairs in order, and the signature.
send_request_url(t, order) ==
    /\ tasks[t].pc = "url"
    /\ tasks' = [tasks EXCEPT ![t].pc = "send", ![t].order = order,
                    ![t].url = request_url(tasks[t].params, order, tasks[t].signature)]
    /\ UNCHANGED <<access_key_id, access_key_secret, clock, input, output>>

\* The request self.client.get(url) builds: a GET of the URL with no body.
get_request(url) == [method |-> S_GET, url |-> url, body |-> <<>>]

\* send_request, line 440: self.client.get(url).send() hands the request to
\* the transport and the task waits.
send_request_send(t) ==
    /\ tasks[t].pc = "send"
    /\ tasks' = [tasks EXCEPT ![t].pc = "await",
                    ![t].request = <<get_request(tasks[t].url)>>,
                    ![t].requests = tasks[t].requests + 1]
    /\ UNCHANGED <<access_key_id, access_key_secret, clock, input, output>>

\* transport_error with a retry: the request is sent once more.
transport_error_retry(t) ==
    /\ tasks[t].pc = "await"
    /\ tasks' = [tasks EXCEPT ![t].pc = "send"]
    /\ UNCHANGED <<access_key_id, access_key_secret, clock, input, output>>

\* send().await? fails: the error is returned to the caller.
transport_error(t) ==
    /\ tasks[t].pc = "await"
    /\ tasks' = [tasks EXCEPT ![t].pc = "done", ![t].result = <<TransportError>>]
    /\ UNCHANGED <<access_key_id, access_key_secret, clock, input, output>>

\* send().await? succeeds with a response.
receive_response(t, response) ==
    /\ tasks[t].pc = "await"
    /\ tasks' = [tasks EXCEPT ![t].pc = "handle_response", ![t].response = <<response>>]
    /\ UNCHANGED <<access_key_id, access_key_secret, clock, input, output>>

\* send_request, line 441: self.handle_response(response).await.
send_request_handle(t) ==
    /\ tasks[t].pc = "handle_response"
    /\ tasks' = [tasks EXCEPT ![t].pc = "done",
                    ![t].result = <<handle_response(tasks[t].T, tasks[t].response[1])>>,
                    ![t].decodes = tasks[t].decodes
                                   + (IF tasks[t].response[1].body = <<>> THEN 0 ELSE 1)]
    /\ UNCHANGED <<access_key_id, access_key_secret, clock, input, output>>

\* The operation returns its result to the caller; the frame is dropped.
return(t) ==
    /\ tasks[t].pc = "done"
    /\ tasks' = [tasks EXCEPT ![t] = IdleFrame]
    /\ UNCHANGED <<access_key_id, access_key_secret, clock, input, output>>

\* A second passes.
Tick ==
    /\ clock < StartTime + MaxTicks
    /\ clock' = clock + 1
    /\ UNCHANGED <<access_key_id, access_key_secret, tasks, input, output>>

\* The bodies the provider answers a call for payload T with in the model:
\* the success payload, an error with a code and no message, and text that
\* is not JSON.
SuccessBody(T) ==
    JsonObject([f \in DOMAIN Schema(T) |->
        [kind |-> Schema(T)[f], val |-> IF Schema(T)[f] = "number" THEN "1" ELSE "x"]])

ErrorBody ==
    JsonObject([f \in {"RequestId", "Code"} |->
        [kind |-> "string",
         val |-> IF f = "Code" THEN "InvalidDomainName.NoExist" ELSE "req-1"]])

\* The responses of the transport, the likeliest first; a body of <<>> is a
\* body that cannot be read.
Responses(T) ==
    <<[status |-> 200, body |-> <<SuccessBody(T)>>],
      [status |-> 400, body |-> <<ErrorBody>>],
      [status |-> 502, body |-> <<MalformedBody>>],
      [status |-> 200, body |-> <<>>]>>

\* The steps of task t: its calls take their subdomains from subs, its map
\* yields its keys in one of rot + 1 orders and the transport answers from
\* the first nresp responses.
Step(t, subs, rot, nresp) ==
    \/ \E d \in DomainNames, r \in subs, ty \in RecordTypes, v \in RecordValues :
            add_domain_record(t, d, r, ty, v)
    \/ \E d \in DomainNames, r \in subs : delete_subdomain_records(t, d, r)
    \/ \E id \in RecordIds : delete_domain_record(t, id)
    \/ \E id \in RecordIds, r \in subs, ty \in RecordTypes, v \in RecordValues :
            update_domain_record(t, id, r, ty, v)
    \/ \E d \in DomainNames : query_domain_records(t, d)
    \/ \E n \in Nonces : send_request_merge(t, n)
    \/ \E o \in IterationOrders(tasks[t].params, rot) : send_request_sign(t, o)
    \/ \E o \in IterationOrders(tasks[t].params, rot) : send_request_url(t, o)
    \/ send_request_send(t)
    \/ transport_error(t)
    \/ /\ tasks[t].pc = "await"
       /\ \E i \in 1..nresp : receive_response(t, Responses(tasks[t].T)[i])
    \/ send_request_handle(t)
    \/ return(t)

\* One caller: calls one after the other.
Next == Step("t1", SubDomains, MaxRot, 4) \/ Tick

Spec == Init /\ [][Next]_vars

\* Two callers on the one client, their calls interleaved.
NextConc == (\E t \in Tasks : Step(t, {<<119, 119, 119>>}, 0, 2)) \/ Tick

SpecConc == Init /\ [][NextConc]_vars

---------------------------------------------------------------------------
(* The pure functions on their own: the initial state draws an argument and *)
(* one step applies the function.  The client stands by, idle.              *)

ClientIdle ==
    /\ \E c \in Credentials : new(c.id, c.secret)
    /\ tasks = [t \in Tasks |-> IdleFrame]
    /\ clock = StartTime

\* Whether the byte at place i of s continues a character.
IsContinuation(s, i) == i <= Len(s) /\ s[i] \in 128..191

\* The length of the character a leading byte opens (0: no leading byte).
CharLen(b) ==
    IF b < 128 THEN 1
    ELSE IF b \in 194..223 THEN 2
    ELSE IF b \in 224..239 THEN 3
    ELSE IF b \in 240..244 THEN 4
    ELSE 0

\* Whether a well-formed UTF-8 character starts at place i of s.
CharAt(s, i) ==
    LET n == CharLen(s[i])
    IN  /\ n > 0
        /\ \A j \in 1..(n - 1) : IsContinuation(s, i + j)
        /\ (s[i] = 224 => s[i + 1] >= 160)
        /\ (s[i] = 237 => s[i + 1] <= 159)
        /\ (s[i] = 240 => s[i + 1] >= 144)
        /\ (s[i] = 244 => s[i + 1] <= 143)

\* Whether place i of s lies in a well-formed character.
InChar(s, i) ==
    \E k \in 0..3 : i - k >= 1 /\ CharAt(s, i - k) /\ k < CharLen(s[i - k])

\* Whether s is the bytes of a str.
IsUtf8(s) == \A i \in 1..Len(s) : InChar(s, i)

\* The bytes percent_encode is tried on: one or more of each class of the
\* encoding rule, and the bytes of "é" and of a three-byte character.
EncodeBytes == {65, 122, 48, 45, 95, 46, 126, 42, 32, 43, 37, 47, 195, 169, 228, 189, 160}

\* The strs of at most n bytes over EncodeBytes.
StrsUpTo(n) ==
    {s \in UNION {[1..k -> EncodeBytes] : k \in 0..n} : IsUtf8(s)}

InitEncode ==
    /\ ClientIdle
    /\ input \in StrsUpTo(MaxLen)
    /\ output = <<>>

apply_percent_encode ==
    /\ output = <<>>
    /\ output' = <<percent_encode(input)>>
    /\ UNCHANGED <<access_key_id, access_key_secret, tasks, clock, input>>

SpecEncode == InitEncode /\ [][apply_percent_encode]_vars

\* The keys and values of the parameter maps the signer is tried on:
\* "RR", "Type", "Value", "Timestamp", "Action" and "www", "a b*~", "é+%&=",
\* "2025-12-31T23:59:59Z".
SignerKeys == {K_RR, K_Type, K_Value, K_Timestamp, K_Action}

SignerValues ==
    {<<119, 119, 119>>, <<97, 32, 98, 42, 126>>, <<195, 169, 43, 37, 38, 61>>,
     FormatTime(StartTime)}

\* The maps of one to n parameters.
MapsUpTo(n) ==
    UNION {[ks -> SignerValues] :
              ks \in {x \in SUBSET SignerKeys : Cardinality(x) \in 1..n}}

InitSigner ==
    /\ ClientIdle
    /\ \E m \in MapsUpTo(MaxParams) : \E o \in AllOrders(m) :
            input = [params |-> m, order |-> o]
    /\ output = <<>>

\* What send_request makes of a merged map, lines 435-438.
apply_sign_and_build ==
    /\ output = <<>>
    /\ LET signature == sign_request(access_key_secret, input.params, input.order)
       IN  output' = <<[canonical |-> canonical_query_string(input.params, input.order),
                        signature |-> signature,
                        url       |-> request_url(input.params, input.order, signature)]>>
    /\ UNCHANGED <<access_key_id, access_key_secret, tasks, clock, input>>

SpecSigner == InitSigner /\ [][apply_sign_and_build]_vars

\* The values a field of a body is tried with.
JsonValue(kind) ==
    [kind |-> kind,
     val  |-> CASE kind = "string" -> "x" [] kind = "number" -> "1"
                [] kind = "null" -> "" [] kind = "records" -> "[]"]

\* The kinds each field of a body is tried with; "absent": not in the body.
FieldChoices ==
    [RequestId     : {"absent", "string", "number"},
     RecordId      : {"absent", "string"},
     Code          : {"absent", "string", "null", "number"},
     Message       : {"absent", "string", "null"},
     RR            : {"absent", "string"},
     TotalCount    : {"absent", "string", "number"},
     PageSize      : {"absent", "number"},
     DomainRecords : {"absent", "records", "string"}]

\* The JSON object a choice of kinds stands for.
BodyOf(choice) ==
    JsonObject([f \in {x \in DOMAIN choice : choice[x] # "absent"} |->
                    JsonValue(choice[f])])

Statuses == {200, 400, 502}

InitDecode ==
    /\ ClientIdle
    /\ \E T \in ResponseTypes, st \in Statuses :
          \/ \E choice \in FieldChoices :
                input = [T |-> T, response |-> [status |-> st, body |-> <<BodyOf(choice)>>]]
          \/ \E b \in {<<MalformedBody>>, <<>>} :
                input = [T |-> T, response |-> [status |-> st, body |-> b]]
    /\ output = <<>>

apply_handle_response ==
    /\ output = <<>>
    /\ output' = <<handle_response(input.T, input.response)>>
    /\ UNCHANGED <<access_key_id, access_key_secret, tasks, clock, input>>

SpecDecode == InitDecode /\ [][apply_handle_response]_vars

---------------------------------------------------------------------------
(* Reading a URL back: url::form_urlencoded::parse on the query, the        *)
(* inverse the properties below hold the request URL against.               *)

\* The value of a hexadecimal digit, -1 for another byte.
HexValue(b) ==
    IF b \in 48..57 THEN b - 48
    ELSE IF b \in 65..70 THEN b - 55
    ELSE IF b \in 97..102 THEN b - 87
    ELSE -1

\* Whether "%XX" stands at place i of s.
IsEscape(s, i) ==
    /\ i >= 1
    /\ i + 2 <= Len(s)
    /\ s[i] = 37
    /\ HexValue(s[i + 1]) >= 0
    /\ HexValue(s[i + 2]) >= 0

\* String::from_utf8_lossy: a str is kept; bytes outside a well-formed
\* character are replaced by U+FFFD.
Utf8Lossy(s) ==
    IF IsUtf8(s) THEN s
    ELSE Concat([i \in 1..Len(s) |-> IF InChar(s, i) THEN <<s[i]>> ELSE <<239, 191, 189>>])

\* A name or a value decoded: '+' is a space, "%XX" the byte XX.
form_decode(s) ==
    Utf8Lossy(Concat([i \in 1..Len(s) |->
        IF IsEscape(s, i) THEN <<16 * HexValue(s[i + 1]) + HexValue(s[i + 2])>>
        ELSE IF IsEscape(s, i - 1) \/ IsEscape(s, i - 2) THEN <<>>
        ELSE IF s[i] = 43 THEN <<32>>
        ELSE <<s[i]>>]))

\* The least element of a non-empty set of numbers.
Least(S) == CHOOSE x \in S : \A y \in S : x <= y

\* The pieces of s between the bytes sep, in order.
SplitOn(s, sep) ==
    LET seps   == {i \in 1..Len(s) : s[i] = sep}
        starts == {1} \cup {i + 1 : i \in seps}
        nth(n) == CHOOSE a \in starts : Cardinality({b \in starts : b < a}) = n - 1
        piece(n) == SubSeq(s, nth(n), Least({i \in seps : i >= nth(n)} \cup {Len(s) + 1}) - 1)
    IN  [n \in 1..Cardinality(starts) |-> piece(n)]

NonEmpty(s) == s # <<>>

\* One piece "name=value" read as <<name, value>>; without '=', the value is empty.
ParsePair(piece) ==
    LET eqs == {i \in 1..Len(piece) : piece[i] = 61}
        cut == IF eqs = {} THEN Len(piece) + 1 ELSE Least(eqs)
    IN  <<form_decode(SubSeq(piece, 1, cut - 1)),
          form_decode(SubSeq(piece, cut + 1, Len(piece)))>>

\* form_urlencoded::parse(query): the pairs, in order; empty pieces are skipped.
ParseQuery(query) ==
    LET pieces == SelectSeq(SplitOn(query, 38), NonEmpty)
    IN  [n \in 1..Len(pieces) |-> ParsePair(pieces[n])]

\* The query of a URL: what follows its first '?'.
QueryOf(url) ==
    LET qs == {i \in 1..Len(url) : url[i] = 63}
    IN  IF qs = {} THEN <<>> ELSE SubSeq(url, Least(qs) + 1, Len(url))

\* The pairs of a map, as a set.
PairsOf(m) == {<<k, m[k]>> : k \in DOMAIN m}

\* The elements of a sequence, as a set.
Range(s) == {s[i] : i \in 1..Len(s)}

---------------------------------------------------------------------------
(* C1.  The canonical query string depends on the content of the map only. *)

\* The keys of m in ascending byte order, told by what the order is.
Ascending(m) ==
    CHOOSE o \in AllOrders(m) : \A i, j \in 1..Len(o) : i < j => StrLess(o[i], o[j])

\* C1: under SpecSigner, whatever order the map yields its keys in, the
\* canonical query string built in sign_request is the same string: the pairs
\* percent_encode(key)=percent_encode(value) of the keys in ascending byte
\* order, joined by '&', with no separator after the last.
C1_CanonicalOrderIndependent ==
    output # <<>> =>
        LET m == input.params
            c == output[1].canonical
            a == Ascending(m)
        IN  /\ \A o \in AllOrders(m) : canonical_query_string(m, o) = c
            /\ c = Join([i \in 1..Len(a) |->
                        percent_encode(a[i]) \o S_Eq \o percent_encode(m[a[i]])], S_Amp)
            /\ c[Len(c)] # 38
            /\ Cardinality({i \in 1..Len(c) : c[i] = 38}) = Len(a) - 1

\* C1's case: a map of two keys or more that yields them out of order has
\* been given to the signer.
C1_Witness ==
    /\ output # <<>>
    /\ Len(input.order) >= 2
    /\ StrLess(input.order[2], input.order[1])

---------------------------------------------------------------------------
(* C2.  percent_encode against the RFC 3986 rule. *)

\* The unreserved characters of RFC 3986: A-Z, a-z, 0-9, '-', '_', '.', '~'.
Unreserved(b) ==
    \/ b \in 65..90
    \/ b \in 97..122
    \/ b \in 48..57
    \/ b \in {45, 95, 46, 126}

\* The rule the claim states, for one byte.
Rfc3986Byte(b) ==
    IF Unreserved(b) THEN <<b>>
    ELSE IF b = 42 THEN S_Pct2A
    ELSE IF b = 32 THEN S_Plus
    ELSE <<37, HexDigit(b \div 16), HexDigit(b % 16)>>

\* C2: under SpecEncode, percent_encode emits every unreserved byte (A-Z,
\* a-z, 0-9, '-', '_', '.', '~') unchanged, '*' as "%2A", a space as '+' and
\* every other byte as one "%XX" triplet in uppercase.  The code does not:
\* '~' comes out as "%7E".
C2_PercentEncodeRfc3986 ==
    output # <<>> =>
        output[1] = Concat([i \in 1..Len(input) |-> Rfc3986Byte(input[i])])

---------------------------------------------------------------------------
(* C3.  What is signed is what is sent. *)

\* Whether task t has handed its request to the transport.
Sent(t) == tasks[t].pc \in {"await", "handle_response", "done"}

\* C3: under Spec, in every call that has sent its request, sign_request was
\* given exactly the merged map (the caller's parameters and the common
\* ones), with no "Signature" key in it; the URL sent carries every pair of
\* that map unchanged and exactly one "Signature" pair, the last, whose value
\* is the signature computed over that map.
C3_SignedSetIsSentSet ==
    \A t \in Tasks : Sent(t) =>
        LET f     == tasks[t]
            pairs == ParseQuery(QueryOf(f.request[1].url))
            n     == Len(pairs)
        IN  /\ K_Signature \notin DOMAIN f.signed
            /\ DOMAIN f.signed = DOMAIN f.args \cup CommonKeys
            /\ \A k \in DOMAIN f.args : f.signed[k] = f.args[k]
            /\ f.signature = sign_request(access_key_secret, f.signed, f.order)
            /\ n = Cardinality(DOMAIN f.signed) + 1
            /\ {pairs[i] : i \in 1..(n - 1)} = PairsOf(f.signed)
            /\ pairs[n] = <<K_Signature, f.signature>>
            /\ Cardinality({i \in 1..n : pairs[i][1] = K_Signature}) = 1

\* C3's case: an add_domain_record call has sent its request, built from a
\* map that yielded its keys out of order.
C3_Witness ==
    \E t \in Tasks :
        /\ tasks[t].pc = "await"
        /\ tasks[t].op = "add_domain_record"
        /\ tasks[t].order # SortKeys(tasks[t].order)

---------------------------------------------------------------------------
(* C4.  One request per call. *)

\* C4: under Spec, a call hands no request to the transport before line 440
\* and exactly one, a GET, from then on, whatever its outcome; a call that
\* ended has a result, gave at most one body to the decoder, and none when
\* the transport failed.
C4_OneRequestPerCall ==
    \A t \in Tasks :
        LET f == tasks[t]
        IN  /\ ~Sent(t) => f.requests = 0 /\ f.request = <<>>
            /\ Sent(t) => f.requests = 1 /\ f.request[1].method = S_GET
            /\ f.decodes <= 1
            /\ f.pc = "done" =>
                /\ f.result # <<>>
                /\ f.result[1].kind \in {"ok", "api_error", "decode_error", "transport_error"}
                /\ f.result[1].kind = "transport_error" => f.decodes = 0
                /\ f.result[1].kind # "transport_error" => f.decodes = 1
            /\ f.pc # "done" => f.result = <<>>

\* C4's case: a call ended with a failure of the transport, having sent its
\* one request.
C4_Witness ==
    \E t \in Tasks :
        /\ tasks[t].pc = "done"
        /\ tasks[t].result[1].kind = "transport_error"
        /\ tasks[t].response = <<>>
        /\ tasks[t].requests = 1

---------------------------------------------------------------------------
(* C7.  The parameters travel in the query; how many are common. *)

\* The names of the pairs of the query of the request task t sent.
QueryNames(t) ==
    LET pairs == ParseQuery(QueryOf(tasks[t].request[1].url))
    IN  {pairs[i][1] : i \in 1..Len(pairs)}

\* C7 as stated: under Spec, the common parameters send_request merges into
\* the caller's are seven.
C7_SevenCommonParameters ==
    \A t \in Tasks : Sent(t) =>
        Cardinality(DOMAIN tasks[t].params \ DOMAIN tasks[t].args) = 7

\* C7, amended: under Spec, every request sent is a GET without a body whose
\* query holds the operation's own parameters, the common parameters and
\* "Signature", and nothing else; the common parameters send_request merges
\* in are eight: AccessKeyId, Action, Format, Version, SignatureMethod,
\* SignatureVersion, SignatureNonce, Timestamp.
C7_EightCommonParametersInQuery ==
    \A t \in Tasks : Sent(t) =>
        LET f == tasks[t]
        IN  /\ f.request[1].method = S_GET
            /\ f.request[1].body = <<>>
            /\ QueryNames(t) = DOMAIN f.args \cup CommonKeys \cup {K_Signature}
            /\ DOMAIN f.params \ DOMAIN f.args = CommonKeys
            /\ Cardinality(DOMAIN f.params \ DOMAIN f.args) = 8

\* C7's case: a delete_domain_record call, of one parameter, has sent its request.
C7_Witness ==
    \E t \in Tasks :
        /\ Sent(t)
        /\ tasks[t].op = "delete_domain_record"
        /\ Cardinality(QueryNames(t)) = 10

---------------------------------------------------------------------------
(* C5, C6.  The classification of a response. *)

\* The success shape of payload T: every field of T, each of its kind.
MatchesSuccess(T, body) ==
    /\ body.valid
    /\ \A f \in DOMAIN Schema(T) :
          f \in DOMAIN body.fields /\ body.fields[f].kind = Schema(T)[f]

\* The error shape: a RequestId string; Code and Message strings, null or absent.
MatchesError(body) ==
    /\ body.valid
    /\ "RequestId" \in DOMAIN body.fields
    /\ body.fields["RequestId"].kind = "string"
    /\ \A f \in {"Code", "Message"} :
          f \in DOMAIN body.fields => body.fields[f].kind \in {"string", "null"}

\* C5: under SpecDecode, handle_response gives every body that can be read
\* exactly one outcome, in this order: the typed payload when the body has
\* the success shape of the operation (other fields, Code and Message among
\* them, are ignored); else a provider error with the request id, the code
\* and the message (empty when missing) when it has the error shape; else a
\* decode error carrying the body.  Success is returned for no other body.
C5_ClassifiedInPriorityOrder ==
    (output # <<>> /\ input.response.body # <<>>) =>
        LET T == input.T
            b == input.response.body[1]
            r == output[1]
        IN  /\ MatchesSuccess(T, b) =>
                /\ r.kind = "ok"
                /\ r.data = [f \in DOMAIN Schema(T) |-> b.fields[f].val]
            /\ (~MatchesSuccess(T, b) /\ MatchesError(b)) =>
                /\ r.kind = "api_error"
                /\ r.data["RequestId"] = b.fields["RequestId"].val
                /\ \A f \in {"Code", "Message"} :
                      r.data[f] = IF f \in DOMAIN b.fields /\ b.fields[f].kind = "string"
                                  THEN b.fields[f].val ELSE ""
            /\ (~MatchesSuccess(T, b) /\ ~MatchesError(b)) =>
                /\ r.kind = "decode_error"
                /\ r.raw = <<b>>
            /\ r.kind = "ok" => MatchesSuccess(T, b)

\* C5's case: a body of the success shape that carries Code and Message too
\* has been classified.
C5_Witness ==
    /\ output # <<>>
    /\ input.response.body # <<>>
    /\ MatchesSuccess(input.T, input.response.body[1])
    /\ {"Code", "Message"} \subseteq DOMAIN input.response.body[1].fields
    /\ output[1].kind = "ok"

\* C6: under SpecDecode, the outcome of handle_response is the same for every
\* status the response may carry with the same body: a body of the success
\* shape is a success and one of the error shape a provider error under a
\* status that is not 2xx too.
C6_StatusIgnored ==
    output # <<>> =>
        /\ \A st \in Statuses :
              handle_response(input.T, [input.response EXCEPT !.status = st]) = output[1]
        /\ (input.response.status \notin 200..299 /\ input.response.body # <<>>) =>
              LET b == input.response.body[1]
              IN  /\ MatchesSuccess(input.T, b) => output[1].kind = "ok"
                  /\ (~MatchesSuccess(input.T, b) /\ MatchesError(b)) =>
                        output[1].kind = "api_error"

\* C6's case: a response of status 502 with a body of the success shape has
\* been handled.
C6_Witness ==
    /\ output # <<>>
    /\ input.response.status = 502
    /\ output[1].kind = "ok"

---------------------------------------------------------------------------
(* C8.  The query of the request URL reads back as the merged map. *)

\* C8: under SpecSigner, the pairs read back from the query of the URL that
\* send_request builds are, the "Signature" pair dropped, exactly the pairs
\* of the map, each once, in whatever order.
C8_QueryRoundTrip ==
    output # <<>> =>
        LET pairs == ParseQuery(QueryOf(output[1].url))
            kept  == SelectSeq(pairs, LAMBDA p : p[1] # K_Signature)
        IN  /\ Range(kept) = PairsOf(input.params)
            /\ Len(kept) = Cardinality(DOMAIN input.params)
            /\ Len(pairs) = Len(kept) + 1

\* C8's case: a map with the value "é+%&=" (a non-ASCII character, '+', '%',
\* '&', '=') and the value "a b*~" has been turned into a URL.
C8_Witness ==
    /\ output # <<>>
    /\ {<<195, 169, 43, 37, 38, 61>>, <<97, 32, 98, 42, 126>>}
          \subseteq {input.params[k] : k \in DOMAIN input.params}

---------------------------------------------------------------------------
(* C9.  Nonce and timestamp of two requests. *)

\* The nonce and timestamp drawn in the call of task t.
NoncePair(t) == <<tasks[t].nonce, tasks[t].now>>

\* C9 as stated: under SpecConc, any two requests carry different
\* (SignatureNonce, Timestamp) pairs.
C9_NonceTimestampNeverRepeats ==
    \A t, u \in Tasks : (t # u /\ Sent(t) /\ Sent(u)) => NoncePair(t) # NoncePair(u)

\* C9, amended: under SpecConc, every request carries, signed, the nonce
\* drawn and the timestamp read in its own call, and two requests whose
\* (SignatureNonce, Timestamp) pairs differ have different signed parameter
\* sets and different canonical query strings; the pair is not unique: two
\* calls can draw the same nonce within the same second, and then carry the
\* same pair and, for the same operation and arguments, the same signature.
C9_FreshPairPerCall ==
    \A t \in Tasks : Sent(t) =>
        /\ K_SignatureNonce \in DOMAIN tasks[t].signed
        /\ K_Timestamp \in DOMAIN tasks[t].signed
        /\ tasks[t].signed[K_SignatureNonce] = tasks[t].nonce
        /\ tasks[t].signed[K_Timestamp] = tasks[t].now
        /\ \A u \in Tasks \ {t} : Sent(u) =>
            /\ NoncePair(t) # NoncePair(u) =>
                /\ tasks[t].signed # tasks[u].signed
                /\ canonical_query_string(tasks[t].signed, tasks[t].order)
                     # canonical_query_string(tasks[u].signed, tasks[u].order)
            /\ (/\ NoncePair(t) = NoncePair(u)
                /\ tasks[t].action = tasks[u].action
                /\ tasks[t].args = tasks[u].args) =>
                    /\ tasks[t].signed = tasks[u].signed
                    /\ tasks[t].signature = tasks[u].signature

\* C9's case: two calls of the same operation and arguments have sent their
\* requests with the same nonce and timestamp.
C9_Witness ==
    \E t, u \in Tasks :
        /\ t # u
        /\ Sent(t) /\ Sent(u)
        /\ NoncePair(t) = NoncePair(u)
        /\ tasks[t].request = tasks[u].request

---------------------------------------------------------------------------
(* C10.  Concurrent calls do not touch each other. *)

\* The request a call of these arguments sends when it runs alone.
SoloRequest(args, action, nonce, now, order) ==
    LET merged == merge_common(args, access_key_id, action, nonce, now)
    IN  get_request(request_url(merged, order,
                                sign_request(access_key_secret, merged, order)))

\* The result a call returns when it runs alone and the transport answers
\* with response (<<>>: the transport fails).
SoloResult(T, response) ==
    IF response = <<>> THEN TransportError ELSE handle_response(T, response[1])

\* C10: under SpecConc, however the steps of two calls on one client are
\* interleaved, the client's fields hold what AliyunDns::new was given, and
\* the request each call sends and the result it returns are those of the
\* same call run alone with the same nonce, timestamp and response.
C10_CallsAreIsolated ==
    /\ \E c \in Credentials : access_key_id = c.id /\ access_key_secret = c.secret
    /\ \A t \in Tasks :
        LET f == tasks[t]
        IN  /\ f.pc = "await" =>
                f.request = <<SoloRequest(f.args, f.action, f.nonce, f.now, f.order)>>
            /\ f.pc = "done" => f.result = <<SoloResult(f.T, f.response)>>

\* C10's case: two calls with different nonces are in flight at once.
C10_Witness ==
    \E t, u \in Tasks :
        /\ tasks[t].pc = "await"
        /\ tasks[u].pc = "await"
        /\ tasks[t].nonce # tasks[u].nonce

---------------------------------------------------------------------------
(* C11.  The keys of each operation and the common keys. *)

Operations ==
    {"add_domain_record", "delete_subdomain_records", "delete_domain_record",
     "update_domain_record", "query_domain_records"}

\* The keys the statement gives each operation.
OwnKeys(op) ==
    CASE op = "add_domain_record"        -> {K_DomainName, K_RR, K_Type, K_Value}
      [] op = "update_domain_record"     -> {K_RecordId, K_RR, K_Type, K_Value}
      [] op = "delete_domain_record"     -> {K_RecordId}
      [] op = "delete_subdomain_records" -> {K_DomainName, K_RR}
      [] op = "query_domain_records"     -> {K_DomainName}

\* The provider's action name of each operation.
ActionName(op) ==
    CASE op = "add_domain_record"        -> A_AddDomainRecord
      [] op = "update_domain_record"     -> A_UpdateDomainRecord
      [] op = "delete_domain_record"     -> A_DeleteDomainRecord
      [] op = "delete_subdomain_records" -> A_DeleteSubDomainRecords
      [] op = "query_domain_records"     -> A_DescribeDomainRecords

\* Whether the call of task t has merged the common parameters into its map.
Merged(t) == tasks[t].pc \notin {"idle", "send_request"}

\* In every call past the merge, the map has the operation's keys and the
\* common keys and no other, the operation's keys hold what the operation
\* put there, and Action names the operation; no common key is a key of an
\* operation.
MergedSetHasOwnAndCommonKeys ==
    /\ \A op \in Operations : OwnKeys(op) \cap CommonKeys = {}
    /\ \A t \in Tasks : Merged(t) =>
        LET f == tasks[t]
        IN  /\ f.op \in Operations
            /\ DOMAIN f.args = OwnKeys(f.op)
            /\ DOMAIN f.params = OwnKeys(f.op) \cup CommonKeys
            /\ Cardinality(DOMAIN f.params) = Cardinality(OwnKeys(f.op)) + 8
            /\ \A k \in OwnKeys(f.op) : f.params[k] = f.args[k]
            /\ f.params[K_Action] = ActionName(f.op)
            /\ f.action = ActionName(f.op)

\* A step that begins a call leaves in the call's map exactly the caller's
\* strings, each under its key.
CallerStringsKept ==
    \A t \in Tasks :
        /\ \A d \in DomainNames, r \in SubDomains, ty \in RecordTypes, v \in RecordValues :
              add_domain_record(t, d, r, ty, v) =>
                  tasks'[t].params = (K_DomainName :> d) @@ (K_RR :> r)
                                        @@ (K_Type :> ty) @@ (K_Value :> v)
        /\ \A id \in RecordIds, r \in SubDomains, ty \in RecordTypes, v \in RecordValues :
              update_domain_record(t, id, r, ty, v) =>
                  tasks'[t].params = (K_RecordId :> id) @@ (K_RR :> r)
                                        @@ (K_Type :> ty) @@ (K_Value :> v)
        /\ \A id \in RecordIds :
              delete_domain_record(t, id) => tasks'[t].params = (K_RecordId :> id)
        /\ \A d \in DomainNames, r \in SubDomains :
              delete_subdomain_records(t, d, r) =>
                  tasks'[t].params = (K_DomainName :> d) @@ (K_RR :> r)
        /\ \A d \in DomainNames :
              query_domain_records(t, d) => tasks'[t].params = (K_DomainName :> d)

\* C11: under Spec, each of the five operations starts its call with a map of
\* exactly its own keys (add: DomainName, RR, Type, Value; update: RecordId,
\* RR, Type, Value; delete: RecordId; delete-subdomain: DomainName, RR; query:
\* DomainName) holding the caller's strings as given; after the merge the map
\* has those keys with those values and the eight common keys, Action being
\* the operation's action name; the common keys are disjoint from the keys of
\* every operation, so the merge replaces no value of the caller's.
C11_OwnKeysAndCommonKeysDisjoint ==
    /\ []MergedSetHasOwnAndCommonKeys
    /\ [][CallerStringsKept]_vars

\* C11's case: an update_domain_record call given the subdomain "a b*~" has
\* merged the common parameters into its map.
C11_Witness ==
    \E t \in Tasks :
        /\ tasks[t].pc = "sign"
        /\ tasks[t].op = "update_domain_record"
        /\ tasks[t].args[K_RR] = <<97, 32, 98, 42, 126>>
        /\ K_Timestamp \in DOMAIN tasks[t].params

===========================================================================
